---- MODULE Spec2Model ----
\* Model of the youtube-RAG indexing and chat services over a ChromaDB
\* collection: IndexingService.index_channel / clear_index, ChatService.ask,
\* SimpleRetriever.retrieve and ChromaVectorStore.
EXTENDS Integers, Sequences, FiniteSets, TLC

\* ---------------------------------------------------------------- bounds
MaxVideos == 2        \* longest video listing of a channel
MaxChunks == 2        \* most chunks one transcript splits into
MaxEntries == 3       \* most entries the collection holds

\* ------------------------------------------------------ program constants
retrieval_k == 5      \* Settings.retrieval_k default

\* ----------------------------------------------------------------- state
VARIABLES
    collUuid,        \* backend: uuid of the live collection "youtube_rag", 0 = none
    entries,         \* backend: entries of the live collection, in insertion order
    idxHandle,       \* IndexingService.vector_store.collection (uuid held)
    chatHandle,      \* ChatService.vector_store.collection (uuid held)
    pc,              \* position of the index_channel call
    videos,          \* the listing; videos[j] = chunk count of video j, 0 = no transcript
    i,               \* loop position (1-based)
    total_chunks,
    videos_indexed,
    videos_skipped,
    stats,           \* the dictionary index_channel returned
    log,             \* collaborator calls of the current run, in order
    fault,           \* collaborator failure injected into the current run
    runAfterClear,   \* the current run directly followed clear_index on the instance
    runBase,         \* entries the collection held when the current run started
    cleared,         \* clear_index completed and nothing was written since
    lastClear,       \* outcome of clear_index while it is the instance's last call
    lastAsk,         \* what ask has just returned, until it is displayed or another step runs
    addCall,         \* per caller: the add_documents call in flight, between its id step and its add
    lastAdd,         \* the add_documents call that finished last
    lastSearch,      \* the search call that finished last: row count and ids of the rows
    explicitUsed,    \* some add_documents call on the collection passed its own ids
    call,            \* arguments and collaborator answers of one call of a component
    ret              \* what that call returned or raised

vars == <<collUuid, entries, idxHandle, chatHandle, pc, videos, i,
          total_chunks, videos_indexed, videos_skipped, stats, log, fault,
          runAfterClear, runBase, cleared, lastClear, lastAsk,
          addCall, lastAdd, lastSearch, explicitUsed, call, ret>>

backendVars == <<collUuid, entries>>
storeVars == <<addCall, lastAdd, lastSearch, explicitUsed>>
callVars == <<call, ret>>
componentVars == <<storeVars, callVars>>
serviceVars == <<idxHandle, chatHandle, pc, videos, i, total_chunks,
                 videos_indexed, videos_skipped, stats, log, fault,
                 runAfterClear, runBase, cleared, lastClear, lastAsk>>
runVars == <<pc, videos, i, total_chunks, videos_indexed, videos_skipped,
             stats, log, fault, runAfterClear, runBase>>

\* --------------------------------------------------------------- helpers
RECURSIVE SumChunks(_)
SumChunks(vs) ==
    IF vs = <<>> THEN 0 ELSE vs[1] + SumChunks(Tail(vs))

NumUnavailable(vs) == Cardinality({j \in 1..Len(vs) : vs[j] = 0})
NumAvailable(vs) == Cardinality({j \in 1..Len(vs) : vs[j] > 0})

Min(a, b) == IF a < b THEN a ELSE b

\* Listings the channel can return while the collection still has room.
Listings ==
    {vs \in UNION {[1..n -> 0..MaxChunks] : n \in 0..MaxVideos} :
        Len(entries) + SumChunks(vs) <= MaxEntries}

NoStats == [videos_indexed |-> 0, videos_skipped |-> 0, total_chunks |-> 0]

NoAsk == [kind |-> "none", sources |-> <<>>, docs |-> <<>>, raised |-> FALSE,
          genCalls |-> 0, fault |-> "none", failed |-> "none",
          retrieveExc |-> "none", afterClear |-> FALSE]

\* ------------------------------------------------------- ChromaVectorStore
\* Collection uuids are opaque; one more than there are handles is enough for
\* a new collection to get a uuid that no handle holds.
Uuids == 1..3

\* chromadb get_or_create_collection: the live collection's uuid, or a new one.
GetOrCreate ==
    IF collUuid # 0 THEN collUuid
    ELSE CHOOSE u \in Uuids : u \notin {idxHandle, chatHandle}

\* A Collection handle works only while its uuid is the live collection's.
HandleLive(h) == h # 0 /\ h = collUuid

StoredIds(es) == {es[j].id : j \in 1..Len(es)}

\* ids = [f"doc_{existing_count + i}" for i in range(len(texts))]
GenerateIds_fromZero(existing_count, n) == [j \in 1..n |-> j - 1]
GenerateIds(existing_count, n) == [j \in 1..n |-> existing_count + (j - 1)]

\* chromadb collection.add: an entry whose id is already stored is not added.
CollectionAdd(es, new) ==
    es \o SelectSeq(new, LAMBDA e : e.id \notin StoredIds(es))

\* add_documents(texts, embeddings, metadatas) without ids, n texts of video vid.
AddDocuments_firstOnly(es, vid, n) ==
    LET ids == GenerateIds(Len(es), n)
    IN  CollectionAdd(es, [j \in 1..Min(n, 1) |-> [id |-> ids[j], video_id |-> vid]])
AddDocuments(es, vid, n) ==
    LET ids == GenerateIds(Len(es), n)
    IN  CollectionAdd(es, [j \in 1..n |-> [id |-> ids[j], video_id |-> vid]])

\* The callers that may be inside add_documents at the same time.
Writers == 1..2

NoCall == [active |-> FALSE, n |-> 0, ids |-> <<>>, explicit |-> FALSE,
           dirty |-> FALSE]

NoAdd == [called |-> FALSE, n |-> 0, ids |-> <<>>, explicit |-> FALSE,
          dirty |-> FALSE, before |-> 0, after |-> 0, storedBefore |-> {},
          raised |-> FALSE]

NoSearch == [called |-> FALSE, k |-> 0, size |-> 0, n |-> 0, results |-> {},
             raised |-> FALSE]

\* chromadb validates a batch: two equal ids in one add raise DuplicateIDError.
HasDuplicates(ids) ==
    \E a, b \in 1..Len(ids) : a # b /\ ids[a] = ids[b]

\* ids a caller may pass for n texts; j stands for the string "doc_<j>".
CallerIds(n) == [1..n -> {0, 1}]

\* k values a caller may pass to search.
SearchKs == 1..(MaxEntries + 1)

\* ------------------------------------------------- IndexingService handlers
NoCallYet == [op |-> "none"]
NoReturn == [op |-> "none"]

ServicesInit ==
    /\ collUuid = 1
    /\ entries = <<>>
    /\ idxHandle = 1
    /\ chatHandle = 1
    /\ pc = "idle"
    /\ videos = <<>>
    /\ i = 1
    /\ total_chunks = 0
    /\ videos_indexed = 0
    /\ videos_skipped = 0
    /\ stats = NoStats
    /\ log = <<>>
    /\ fault = "none"
    /\ runAfterClear = FALSE
    /\ runBase = 0
    /\ cleared = FALSE
    /\ lastClear = "none"
    /\ lastAsk = NoAsk
    /\ addCall = [w \in Writers |-> NoCall]
    /\ lastAdd = NoAdd
    /\ lastSearch = NoSearch
    /\ explicitUsed = FALSE

Init ==
    /\ ServicesInit
    /\ call = NoCallYet
    /\ ret = NoReturn

Idle == pc \in {"idle", "returned", "raised"}

\* except TranscriptNotAvailableError: skip; anything else leaves the loop.
InnerHandler_propagateAll(exc) == "propagate"
InnerHandler_skipAll(exc) == "skip"
InnerHandler(exc) ==
    IF exc = "TranscriptNotAvailableError" THEN "skip" ELSE "propagate"

\* The outer handler of index_channel and the handler of clear_index:
\* except Exception as e: raise IndexingError(...)
OuterHandler_reraise(exc) == exc
OuterHandler(exc) == "IndexingError"

\* What a collaborator call can raise: its own error class or any other
\* exception it does not catch.
StepExceptions(op) ==
    CASE op = "listing" -> {"YouTubeAPIError", "KeyError", "OSError"}
      [] op = "chunk" -> {"ValueError", "TypeError"}
      [] op = "embed" -> {"EmbeddingError"}
      [] op = "store" -> {"VectorStoreError"}
      [] op = "delete" -> {"VectorStoreError"}
      [] OTHER -> {}

\* The exception that leaves index_channel when exc is raised in the loop.
Escapes(exc) ==
    IF InnerHandler(exc) = "skip" THEN "none" ELSE OuterHandler(exc)

\* total_chunks += len(chunks)
AddChunkCount_one(total, n) == total + 1
AddChunkCount(total, n) == total + n

\* Move to the next video with the given counters; after the last one build stats.
Advance(indexed, skipped, chunks) ==
    /\ i' = i + 1
    /\ videos_indexed' = indexed
    /\ videos_skipped' = skipped
    /\ total_chunks' = chunks
    /\ IF i + 1 > Len(videos)
       THEN /\ pc' = "returned"
            /\ stats' = [videos_indexed |-> indexed, videos_skipped |-> skipped,
                         total_chunks |-> chunks]
       ELSE /\ pc' = "fetch"
            /\ stats' = stats

\* An exception raised inside the per-video try block.
Raise_withStats(exc) ==
    IF InnerHandler(exc) = "skip"
    THEN Advance(videos_indexed, videos_skipped + 1, total_chunks)
    ELSE /\ pc' = "raised"
         /\ stats' = [videos_indexed |-> videos_indexed,
                      videos_skipped |-> videos_skipped,
                      total_chunks |-> total_chunks]
         /\ UNCHANGED <<i, videos_indexed, videos_skipped, total_chunks>>
Raise(exc) ==
    IF InnerHandler(exc) = "skip"
    THEN Advance(videos_indexed, videos_skipped + 1, total_chunks)
    ELSE /\ pc' = "raised"
         /\ UNCHANGED <<i, videos_indexed, videos_skipped, total_chunks, stats>>

Logged(op, ok) == log' = Append(log, [op |-> op, vid |-> i, ok |-> ok])

\* index_channel up to the loop: channel lookup and video listing.
IndexStart ==
    /\ Idle
    /\ \E ok \in BOOLEAN, vs \in Listings :
        /\ log' = <<>>
        /\ runAfterClear' = (lastClear = "ok")
        /\ runBase' = Len(entries)
        /\ lastClear' = "none"
        /\ i' = 1
        /\ total_chunks' = 0
        /\ videos_indexed' = 0
        /\ videos_skipped' = 0
        /\ IF ok
           THEN /\ videos' = vs
                /\ fault' = "none"
                /\ pc' = IF vs = <<>> THEN "returned" ELSE "fetch"
           ELSE /\ videos' = <<>>
                /\ fault' = "listing"
                /\ pc' = "raised"
        /\ stats' = NoStats
    /\ UNCHANGED <<backendVars, idxHandle, chatHandle, cleared>>
    /\ lastAsk' = NoAsk
    /\ UNCHANGED componentVars

\* transcript = self.youtube_client.get_video_transcript(video["video_id"])
FetchTranscript_noChunker ==
    /\ pc = "fetch"
    /\ IF videos[i] = 0
       THEN /\ Logged("fetch", FALSE)
            /\ Raise("TranscriptNotAvailableError")
       ELSE /\ Logged("fetch", TRUE)
            /\ pc' = "embed"
            /\ UNCHANGED <<i, videos_indexed, videos_skipped, total_chunks, stats>>
    /\ UNCHANGED <<backendVars, idxHandle, chatHandle, videos, fault,
                   runAfterClear, runBase, cleared, lastClear>>
    /\ lastAsk' = NoAsk
    /\ UNCHANGED componentVars
FetchTranscript ==
    /\ pc = "fetch"
    /\ IF videos[i] = 0
       THEN /\ Logged("fetch", FALSE)
            /\ Raise("TranscriptNotAvailableError")
       ELSE /\ Logged("fetch", TRUE)
            /\ pc' = "chunk"
            /\ UNCHANGED <<i, videos_indexed, videos_skipped, total_chunks, stats>>
    /\ UNCHANGED <<backendVars, idxHandle, chatHandle, videos, fault,
                   runAfterClear, runBase, cleared, lastClear>>
    /\ lastAsk' = NoAsk
    /\ UNCHANGED componentVars

\* chunks = self.chunker.chunk_text(transcript, metadata=metadata)
ChunkText ==
    /\ pc = "chunk"
    /\ \E ok \in BOOLEAN :
        /\ Logged("chunk", ok)
        /\ IF ok
           THEN /\ pc' = "embed"
                /\ fault' = fault
                /\ UNCHANGED <<i, videos_indexed, videos_skipped, total_chunks, stats>>
           ELSE /\ fault' = "chunk"
                /\ Raise("ValueError")
    /\ UNCHANGED <<backendVars, idxHandle, chatHandle, videos,
                   runAfterClear, runBase, cleared, lastClear>>
    /\ lastAsk' = NoAsk
    /\ UNCHANGED componentVars

\* embeddings = self.embedder.embed_batch(chunk_texts)
EmbedBatch ==
    /\ pc = "embed"
    /\ \E ok \in BOOLEAN :
        /\ Logged("embed", ok)
        /\ IF ok
           THEN /\ pc' = "store"
                /\ fault' = fault
                /\ UNCHANGED <<i, videos_indexed, videos_skipped, total_chunks, stats>>
           ELSE /\ fault' = "embed"
                /\ Raise("EmbeddingError")
    /\ UNCHANGED <<backendVars, idxHandle, chatHandle, videos,
                   runAfterClear, runBase, cleared, lastClear>>
    /\ lastAsk' = NoAsk
    /\ UNCHANGED componentVars

\* self.vector_store.add_documents(...); total_chunks += len(chunks); videos_indexed += 1
StoreChunks ==
    /\ pc = "store"
    /\ \E ok \in BOOLEAN :
        IF HandleLive(idxHandle) /\ ok
        THEN /\ Logged("store", TRUE)
             /\ entries' = AddDocuments(entries, i, videos[i])
             /\ cleared' = FALSE
             /\ fault' = fault
             /\ Advance(videos_indexed + 1, videos_skipped,
                     AddChunkCount(total_chunks, videos[i]))
        ELSE /\ Logged("store", FALSE)
             /\ fault' = IF HandleLive(idxHandle) THEN "store" ELSE fault
             /\ Raise("VectorStoreError")
             /\ UNCHANGED <<entries, cleared>>
    /\ UNCHANGED <<collUuid, idxHandle, chatHandle, videos,
                   runAfterClear, runBase, lastClear>>
    /\ lastAsk' = NoAsk
    /\ UNCHANGED componentVars

\* chromadb client.delete_collection(name): the collection goes with all its
\* entries; a collection created later under the name starts empty.
DeleteCollection_keepEntries(es) == es
DeleteCollection(es) == <<>>

\* clear_index: self.vector_store.delete_collection(), by collection name.
ClearIndex ==
    /\ IF collUuid # 0
       THEN /\ collUuid' = 0
            /\ entries' = DeleteCollection(entries)
            /\ cleared' = TRUE
            /\ lastClear' = "ok"
       ELSE /\ lastClear' = "raised"
            /\ UNCHANGED <<collUuid, entries, cleared>>
    /\ UNCHANGED <<idxHandle, chatHandle, runVars>>
    /\ lastAsk' = NoAsk
    /\ UNCHANGED componentVars

\* IndexingService(): a new instance opens the collection by name.
IndexingInit ==
    /\ Idle
    /\ idxHandle' = GetOrCreate
    /\ collUuid' = GetOrCreate
    /\ lastClear' = "none"
    /\ pc' = "idle"
    /\ videos' = <<>>
    /\ i' = 1
    /\ total_chunks' = 0
    /\ videos_indexed' = 0
    /\ videos_skipped' = 0
    /\ stats' = NoStats
    /\ log' = <<>>
    /\ fault' = "none"
    /\ runAfterClear' = FALSE
    /\ runBase' = 0
    /\ UNCHANGED <<entries, chatHandle, cleared>>
    /\ lastAsk' = NoAsk
    /\ UNCHANGED componentVars

\* ------------------------------------------------------------ ChatService
\* The orders in which the backend can rank n of m stored entries.
Rankings(n, m) ==
    {f \in [1..n -> 1..m] : \A a, b \in 1..n : a # b => f[a] # f[b]}

\* ChromaVectorStore.search: the n_results nearest entries, at most all of them.
Search_ignoreK(es, k, order) == es
Search(es, k, order) == [j \in 1..Min(k, Len(es)) |-> es[order[j]]]

\* k = k or self.settings.retrieval_k (None and 0 are both falsy)
EffectiveK(k) == IF k = 0 THEN retrieval_k ELSE k

\* The exception embed_text or search raises in this call, if any.
RetrieveExc(flt) ==
    IF flt = "embed" THEN "EmbeddingError"
    ELSE IF ~HandleLive(chatHandle) \/ flt = "search" THEN "VectorStoreError"
    ELSE "none"

Retrieve_swallow(k, flt, order) ==
    IF RetrieveExc(flt) # "none"
    THEN [exc |-> "none", docs |-> <<>>]
    ELSE [exc |-> "none", docs |-> Search(entries, EffectiveK(k), order)]

\* SimpleRetriever.retrieve: embed the query, search, format; no handler of its own.
Retrieve(k, flt, order) ==
    IF RetrieveExc(flt) # "none"
    THEN [exc |-> RetrieveExc(flt), docs |-> <<>>]
    ELSE [exc |-> "none", docs |-> Search(entries, EffectiveK(k), order)]

\* The rankings the search of this call can come back with (one when it fails).
SearchOrders(k, flt) ==
    IF RetrieveExc(flt) # "none"
    THEN {<<>>}
    ELSE Rankings(Min(EffectiveK(k), Len(entries)), Len(entries))

\* if not documents:
NoDocuments_never(docs) == FALSE
NoDocuments(docs) == Len(docs) = 0

\* sources.append({... "video_id": metadata.get("video_id", "") ...}) per document
FormatSources(docs) == [j \in 1..Len(docs) |-> [video_id |-> docs[j].video_id]]

\* except Exception as e: return {"answer": f"An error occurred ...", "sources": []}
AskHandler_reraise(exc) == [raised |-> TRUE, kind |-> "none", sources |-> <<>>]
AskHandler_onlyLLM(exc) ==
    IF exc = "LLMError"
    THEN [raised |-> FALSE, kind |-> "error", sources |-> <<>>]
    ELSE [raised |-> TRUE, kind |-> "none", sources |-> <<>>]
AskHandler(exc) == [raised |-> FALSE, kind |-> "error", sources |-> <<>>]

StepOf(exc) ==
    CASE exc = "EmbeddingError" -> "embed"
      [] exc = "VectorStoreError" -> "search"
      [] exc = "LLMError" -> "generate"
      [] OTHER -> "format"

Failed(exc, genCalls) ==
    [genCalls |-> genCalls, failed |-> StepOf(exc)] @@ AskHandler(exc)

\* The body of ask for a retrieval outcome r and an injected collaborator fault.
AskResult(r, flt) ==
    IF r.exc # "none" THEN Failed(r.exc, 0)
    ELSE IF NoDocuments(r.docs)
    THEN [raised |-> FALSE, kind |-> "canned", sources |-> <<>>,
          genCalls |-> 0, failed |-> "none"]
    ELSE IF flt = "generate" THEN Failed("LLMError", 1)
    ELSE IF flt = "format" THEN Failed("AttributeError", 1)
    ELSE [raised |-> FALSE, kind |-> "answer", sources |-> FormatSources(r.docs),
          genCalls |-> 1, failed |-> "none"]

AskFaults == {"none", "embed", "search", "generate", "format"}
AskKs == {0, 2}

\* ChatService.ask(question, k), called from the prompt of the chat loop.
Ask ==
    /\ lastAsk = NoAsk
    /\ \E k \in AskKs, flt \in AskFaults :
        \E order \in SearchOrders(k, flt) :
            LET r == Retrieve(k, flt, order)
                res == AskResult(r, flt)
            IN  lastAsk' = res @@
                           [docs |-> [j \in 1..Len(r.docs) |-> r.docs[j].video_id],
                            retrieveExc |-> r.exc, fault |-> flt,
                            afterClear |-> cleared]
    /\ UNCHANGED <<backendVars, idxHandle, chatHandle, runVars, cleared, lastClear>>
    /\ UNCHANGED componentVars

\* interactive_chat: display_result(result), then back to the prompt.
DisplayAnswer ==
    /\ lastAsk # NoAsk
    /\ lastAsk' = NoAsk
    /\ UNCHANGED <<backendVars, idxHandle, chatHandle, runVars, cleared, lastClear>>
    /\ UNCHANGED componentVars

\* ChatService(): a new instance opens the collection by name.
ChatInit ==
    /\ chatHandle' = GetOrCreate
    /\ collUuid' = GetOrCreate
    /\ lastAsk' = NoAsk
    /\ UNCHANGED <<entries, idxHandle, runVars, cleared, lastClear>>
    /\ UNCHANGED componentVars

RECURSIVE display_result_last(_)
display_result_last(sources) ==
    IF sources = <<>> THEN <<>>
    ELSE LET rest == display_result_last(Tail(sources))
         IN  IF \E j \in 1..Len(rest) : rest[j].video_id = sources[1].video_id
             THEN rest
             ELSE <<sources[1]>> \o rest

\* display_result: group sources by video, first occurrence kept, insertion order.
RECURSIVE display_result(_)
display_result(sources) ==
    IF sources = <<>> THEN <<>>
    ELSE LET front == SubSeq(sources, 1, Len(sources) - 1)
             last == sources[Len(sources)]
             shown == display_result(front)
         IN  IF \E j \in 1..Len(shown) : shown[j].video_id = last.video_id
             THEN shown
             ELSE Append(shown, last)


Next ==
    \/ IndexStart
    \/ FetchTranscript
    \/ ChunkText
    \/ EmbedBatch
    \/ StoreChunks
    \/ ClearIndex
    \/ IndexingInit
    \/ Ask
    \/ DisplayAnswer
    \/ ChatInit

Spec == Init /\ [][Next]_vars

\* ------------------------------------------- ChromaVectorStore, call by call
\* add_documents up to the add: the caller's ids, or ids generated from
\* self.collection.count() as it is now.
AddBegin(w) ==
    /\ ~addCall[w].active
    /\ \E n \in 1..MaxChunks, explicit \in BOOLEAN :
        /\ Len(entries) + n <= MaxEntries
        /\ \E ids \in (IF explicit THEN CallerIds(n)
                                   ELSE {GenerateIds(Len(entries), n)}) :
            addCall' = [addCall EXCEPT ![w] =
                [active |-> TRUE, n |-> n, ids |-> ids, explicit |-> explicit,
                 dirty |-> FALSE]]
    /\ lastAdd' = NoAdd
    /\ lastSearch' = NoSearch
    /\ UNCHANGED <<backendVars, explicitUsed, serviceVars, callVars>>

\* self.collection.add(...) and the return or the wrapped exception.
AddCommit(w) ==
    /\ addCall[w].active
    /\ \E ok \in BOOLEAN :
        LET c == addCall[w]
            new == [j \in 1..c.n |-> [id |-> c.ids[j], video_id |-> 1]]
            raised == ~ok \/ HasDuplicates(c.ids)
            stored == IF raised THEN entries ELSE CollectionAdd(entries, new)
        IN  /\ entries' = stored
            /\ lastAdd' = [called |-> TRUE, n |-> c.n, ids |-> c.ids,
                           explicit |-> c.explicit, dirty |-> c.dirty,
                           before |-> Len(entries), after |-> Len(stored),
                           storedBefore |-> StoredIds(entries),
                           raised |-> raised]
            /\ addCall' = [v \in Writers |->
                    IF v = w THEN NoCall
                    ELSE IF addCall[v].active /\ stored # entries
                         THEN [addCall[v] EXCEPT !.dirty = TRUE]
                         ELSE addCall[v]]
            /\ explicitUsed' = (explicitUsed \/ (c.explicit /\ stored # entries))
    /\ lastSearch' = NoSearch
    /\ UNCHANGED <<collUuid, serviceVars, callVars>>

\* search(query_embedding, k): collection.query and the formatting of its rows.
StoreSearch ==
    /\ \E k \in SearchKs, ok \in BOOLEAN :
        \E order \in (IF ok THEN Rankings(Min(k, Len(entries)), Len(entries))
                            ELSE {<<>>}) :
            LET rs == IF ok THEN Search(entries, k, order) ELSE <<>>
            IN  lastSearch' =
                    [called |-> TRUE, k |-> k, size |-> Len(entries),
                     n |-> Len(rs), results |-> StoredIds(rs), raised |-> ~ok]
    /\ lastAdd' = NoAdd
    /\ UNCHANGED <<backendVars, addCall, explicitUsed, serviceVars, callVars>>

NextStore ==
    \/ \E w \in Writers : AddBegin(w)
    \/ \E w \in Writers : AddCommit(w)
    \/ StoreSearch

SpecStore == Init /\ [][NextStore]_vars

\* ------------------------------------------------------ RerankingRetriever
\* A text is the sequence of its words and whitespace runs (" "); a
\* similarity is in hundredths.
MaxCandidates == 2    \* most rows the store answers a reranking search with

initial_k == 20       \* RerankingRetriever.__init__ default

\* str.lower() on the words used here.
Lower(w) ==
    CASE w = "Cats" -> "cats"
      [] w = "Dogs" -> "dogs"
      [] OTHER -> w

\* set(text.lower().split())
Terms(text) ==
    {Lower(text[n]) : n \in {m \in 1..Len(text) : text[m] # " "}}

QueryTexts ==
    {<<>>, <<" ">>, <<"cats", "dogs">>, <<"Dogs">>, <<"Cats", " ", "cats">>}

DocTexts == {<<"Cats", "dogs">>, <<"dogs", " ", "fish">>, <<"fish">>}

Similarities == {50, 70, 90}

\* What the store holds for a query, nearest first, each row with its id.
StoreRows ==
    {rs \in UNION {[1..n -> [text : DocTexts, score : Similarities, id : 1..n]] :
                        n \in 0..MaxCandidates} :
        /\ \A a \in 1..Len(rs) : rs[a].id = a
        /\ \A a \in 1..(Len(rs) - 1) : rs[a].score >= rs[a + 1].score}

\* Values of the k argument; 0 stands for None.
RerankKs == {0, 1, 2}

\* Values of the initial_k constructor argument.
InitialKs == {1, initial_k}

RerankCalls ==
    [op : {"rerank"}, query : QueryTexts, k : RerankKs, initial_k : InitialKs,
     stored : StoreRows]

\* overlap_score = len(query_terms.intersection(doc_terms)) / len(query_terms)
\* combined_score = 0.7 * score + 0.3 * overlap_score, as an exact fraction.
CombinedScore_swapped(score, query_terms, doc_terms) ==
    [num |-> 3 * score * Cardinality(query_terms)
                + 700 * Cardinality(query_terms \cap doc_terms),
     den |-> 1000 * Cardinality(query_terms)]
CombinedScore(score, query_terms, doc_terms) ==
    [num |-> 7 * score * Cardinality(query_terms)
                + 300 * Cardinality(query_terms \cap doc_terms),
     den |-> 1000 * Cardinality(query_terms)]

\* a >= b for two fractions with positive denominators
AtLeast(a, b) == a.num * b.den >= b.num * a.den

\* One step of the stable descending sort: e goes behind every row that is
\* not smaller.
InsertDescending(sorted, e) ==
    LET pos == Cardinality({a \in 1..Len(sorted) : AtLeast(sorted[a].score, e.score)})
    IN  SubSeq(sorted, 1, pos) \o <<e>> \o SubSeq(sorted, pos + 1, Len(sorted))

\* scored_results.sort(key=lambda x: x[1], reverse=True)
RECURSIVE SortDescending(_)
SortDescending(rs) ==
    IF rs = <<>> THEN <<>>
    ELSE InsertDescending(SortDescending(SubSeq(rs, 1, Len(rs) - 1)), rs[Len(rs)])

\* _rerank_by_term_overlap: the division is evaluated once per row.
RerankByTermOverlap(query, results) ==
    LET query_terms == Terms(query)
    IN  IF results # <<>> /\ query_terms = {}
        THEN [exc |-> "ZeroDivisionError", docs |-> <<>>]
        ELSE [exc |-> "none",
              docs |-> SortDescending(
                  [j \in 1..Len(results) |->
                      [text |-> results[j].text,
                       score |-> CombinedScore(results[j].score, query_terms,
                                               Terms(results[j].text)),
                       id |-> results[j].id]])]

\* reranked[:k]
Take(rs, k) == SubSeq(rs, 1, Min(k, Len(rs)))

\* RerankingRetriever.retrieve
RerankingRetrieve(c, flt) ==
    IF flt = "embed" THEN [exc |-> "EmbeddingError", docs |-> <<>>]
    ELSE IF flt = "search" THEN [exc |-> "VectorStoreError", docs |-> <<>>]
    ELSE LET results == Search(c.stored, c.initial_k, [j \in 1..Len(c.stored) |-> j])
             reranked == RerankByTermOverlap(c.query, results)
         IN  IF reranked.exc # "none" THEN reranked
             ELSE [exc |-> "none", docs |-> Take(reranked.docs, EffectiveK(c.k))]

InitRerank ==
    /\ ServicesInit
    /\ call \in RerankCalls
    /\ ret = NoReturn

RerankRetrieve ==
    /\ call.op = "rerank"
    /\ ret.op = "none"
    /\ \E flt \in {"none", "embed", "search"} :
        ret' = [op |-> "rerank", fault |-> flt] @@ RerankingRetrieve(call, flt)
    /\ UNCHANGED <<backendVars, serviceVars, storeVars, call>>

NextRerank == RerankRetrieve

SpecRerank == InitRerank /\ [][NextRerank]_vars

\* --------------------------------------------- ChatService.ask, call by call
Questions == {"q1", "q2"}
SystemPrompts == {"None", "custom"}
ChunkTexts == {"t1", "t2"}
GeneratorOutputs == {"a1", "a2"}

\* What the retriever can hand to ask: documents in its order.
RetrievedDocuments ==
    UNION {[1..n -> [text : ChunkTexts, video_id : 1..MaxVideos]] :
                n \in 0..MaxCandidates}

AskCalls ==
    [op : {"ask"}, question : Questions, system_prompt : SystemPrompts,
     documents : RetrievedDocuments, output : GeneratorOutputs]

\* context_texts = [doc["text"] for doc in documents]
ContextTexts_reversed(docs) ==
    [j \in 1..Len(docs) |-> docs[Len(docs) + 1 - j].text]
ContextTexts(docs) == [j \in 1..Len(docs) |-> docs[j].text]

\* self.generator.generate(query=question, context=context_texts,
\*                         system_prompt=system_prompt)
GenerateCall(question, docs, system_prompt) ==
    [query |-> question, context |-> ContextTexts(docs),
     system_prompt |-> system_prompt]

\* ask with the arguments of its generate calls and the answer text.
AskWithGenerator(c, flt) ==
    LET r == IF RetrieveExc(flt) # "none"
             THEN [exc |-> RetrieveExc(flt), docs |-> <<>>]
             ELSE [exc |-> "none", docs |-> c.documents]
        res == AskResult(r, flt)
    IN  res @@
        [retrieved |-> r.docs,
         calls |-> IF res.genCalls = 1
                   THEN <<GenerateCall(c.question, r.docs, c.system_prompt)>>
                   ELSE <<>>,
         answer |-> IF res.kind = "answer" THEN c.output ELSE res.kind]

InitAsk ==
    /\ ServicesInit
    /\ call \in AskCalls
    /\ ret = NoReturn

AskOnce ==
    /\ call.op = "ask"
    /\ ret.op = "none"
    /\ \E flt \in AskFaults :
        ret' = [op |-> "ask", fault |-> flt] @@ AskWithGenerator(call, flt)
    /\ UNCHANGED <<backendVars, serviceVars, storeVars, call>>

NextAsk == AskOnce

SpecAsk == InitAsk /\ [][NextAsk]_vars

\* -------------------------------------------------------- RecursiveChunker
\* A text is the sequence of its characters. split_text is that of
\* RecursiveCharacterTextSplitter with keep_separator and strip_whitespace at
\* their defaults, which the constructor call leaves untouched.
MaxTextLen == 4       \* longest text given to chunk_text

settings_chunk_size == 1000     \* Settings.chunk_size default
settings_chunk_overlap == 200   \* Settings.chunk_overlap default

Chars == {"a", ".", " ", "\n"}
Whitespace == {" ", "\n"}

Texts == UNION {[1..n -> Chars] : n \in 0..MaxTextLen}

\* separators=["\n\n", "\n", ". ", " ", ""]
separators_noCharacter == <<<<"\n", "\n">>, <<"\n">>, <<".", " ">>, <<" ">>>>
separators == <<<<"\n", "\n">>, <<"\n">>, <<".", " ">>, <<" ">>, <<>>>>

\* Constructor arguments; 0 stands for None.
ChunkSizeArgs == {0, 1, 2, 3}
ChunkOverlapArgs == {0, 1, 2}

\* The metadata argument: None, or a dictionary given by its items. Objects
\* are known by their address; the caller's dictionary is at address 0.
MetadataArgs ==
    {[given |-> FALSE, items |-> {}],
     [given |-> TRUE, items |-> {}],
     [given |-> TRUE, items |-> {<<"video_id", 1>>}]}

ChunkCalls ==
    [op : {"chunk"}, text : Texts, chunk_size : ChunkSizeArgs,
     chunk_overlap : ChunkOverlapArgs, metadata : MetadataArgs]

\* self.chunk_size = chunk_size or settings.chunk_size
EffectiveChunkSize(arg) == IF arg = 0 THEN settings_chunk_size ELSE arg
\* self.chunk_overlap = chunk_overlap or settings.chunk_overlap
EffectiveChunkOverlap(arg) == IF arg = 0 THEN settings_chunk_overlap ELSE arg

MatchesAt(text, sep, p) ==
    /\ p + Len(sep) - 1 <= Len(text)
    /\ SubSeq(text, p, p + Len(sep) - 1) = sep

\* re.search(separator, text)
Found(text, sep) == \E p \in 1..Len(text) : MatchesAt(text, sep, p)

\* re.split on the separator, each separator kept at the start of the piece
\* that follows it.
RECURSIVE ReSplit(_, _, _, _, _)
ReSplit(text, sep, p, cur, acc) ==
    IF p > Len(text) THEN Append(acc, cur)
    ELSE IF MatchesAt(text, sep, p)
         THEN ReSplit(text, sep, p + Len(sep), sep, Append(acc, cur))
         ELSE ReSplit(text, sep, p + 1, Append(cur, text[p]), acc)

\* The pieces of one level: by characters for "", empty pieces dropped.
split_text_with_regex(text, sep) ==
    LET splits == IF sep = <<>>
                  THEN [j \in 1..Len(text) |-> <<text[j]>>]
                  ELSE ReSplit(text, sep, 1, <<>>, <<>>)
    IN  SelectSeq(splits, LAMBDA piece : piece # <<>>)

RECURSIVE Concat(_)
Concat(ds) == IF ds = <<>> THEN <<>> ELSE ds[1] \o Concat(Tail(ds))

RECURSIVE LStrip(_)
LStrip(t) == IF t # <<>> /\ t[1] \in Whitespace THEN LStrip(Tail(t)) ELSE t

RECURSIVE RStrip(_)
RStrip(t) ==
    IF t # <<>> /\ t[Len(t)] \in Whitespace
    THEN RStrip(SubSeq(t, 1, Len(t) - 1)) ELSE t

\* "".join(docs).strip(); the empty text stands for None
join_docs(docs) == RStrip(LStrip(Concat(docs)))

\* while total > chunk_overlap or (total + _len > chunk_size and total > 0):
\*     drop current_doc[0]
RECURSIVE PopFront(_, _, _, _)
PopFront(current_doc, len, chunk_size, chunk_overlap) ==
    LET total == Len(Concat(current_doc))
    IN  IF total > chunk_overlap \/ (total + len > chunk_size /\ total > 0)
        THEN PopFront(Tail(current_doc), len, chunk_size, chunk_overlap)
        ELSE current_doc

\* if doc is not None: docs.append(doc)
AppendDoc_always(docs, doc) == Append(docs, doc)
AppendDoc(docs, doc) == IF doc = <<>> THEN docs ELSE Append(docs, doc)

\* _merge_splits from split j on, with the joining separator "".
RECURSIVE MergeFrom(_, _, _, _, _, _)
MergeFrom(splits, j, current_doc, docs, chunk_size, chunk_overlap) ==
    IF j > Len(splits)
    THEN AppendDoc(docs, join_docs(current_doc))
    ELSE LET d == splits[j]
             total == Len(Concat(current_doc))
         IN  IF total + Len(d) > chunk_size /\ current_doc # <<>>
             THEN LET doc == join_docs(current_doc)
                      kept == PopFront(current_doc, Len(d), chunk_size, chunk_overlap)
                  IN  MergeFrom(splits, j + 1, Append(kept, d),
                                AppendDoc(docs, doc), chunk_size, chunk_overlap)
             ELSE MergeFrom(splits, j + 1, Append(current_doc, d), docs,
                            chunk_size, chunk_overlap)

merge_splits(splits, chunk_size, chunk_overlap) ==
    MergeFrom(splits, 1, <<>>, <<>>, chunk_size, chunk_overlap)

RECURSIVE split_text(_, _, _, _)
RECURSIVE SplitFrom(_, _, _, _, _, _, _)

\* The loop of _split_text over the pieces: pieces under chunk_size are
\* collected and merged, a piece that is not goes to the next separators, or
\* is a chunk as it is when none is left.
SplitFrom(splits, j, good_splits, final_chunks, new_separators, chunk_size, chunk_overlap) ==
    LET merged == IF good_splits = <<>> THEN final_chunks
                  ELSE final_chunks \o merge_splits(good_splits, chunk_size, chunk_overlap)
    IN  IF j > Len(splits) THEN merged
        ELSE IF Len(splits[j]) < chunk_size
             THEN SplitFrom(splits, j + 1, Append(good_splits, splits[j]), final_chunks,
                            new_separators, chunk_size, chunk_overlap)
             ELSE SplitFrom(splits, j + 1, <<>>,
                            merged \o (IF new_separators = <<>>
                                       THEN <<splits[j]>>
                                       ELSE split_text(splits[j], new_separators,
                                                       chunk_size, chunk_overlap)),
                            new_separators, chunk_size, chunk_overlap)

\* _split_text: the first separator that is "" or occurs in the text, the last
\* one when there is none.
split_text(text, seps, chunk_size, chunk_overlap) ==
    LET usable == {n \in 1..Len(seps) : seps[n] = <<>> \/ Found(text, seps[n])}
        first == IF usable = {} THEN Len(seps)
                 ELSE CHOOSE n \in usable : \A m \in usable : n <= m
        separator == seps[first]
        new_separators == IF usable = {} \/ separator = <<>> THEN <<>>
                          ELSE SubSeq(seps, first + 1, Len(seps))
    IN  SplitFrom(split_text_with_regex(text, separator), 1, <<>>, <<>>,
                  new_separators, chunk_size, chunk_overlap)

\* bool(metadata): None and the empty dictionary are falsy.
Truthy(metadata) == metadata.given /\ metadata.items # {}

\* metadata or {}, evaluated for chunk j: the caller's own dictionary when it
\* is truthy, a new empty dictionary (at address j) otherwise.
MetadataOrNew(metadata, j) == IF Truthy(metadata) THEN 0 ELSE j

\* The dictionaries that exist after chunk_text made n chunks.
Heap(metadata, n) ==
    [a \in (IF metadata.given THEN {0} ELSE {})
            \cup (IF Truthy(metadata) THEN {} ELSE 1..n) |->
        IF a = 0 THEN metadata.items ELSE {}]

\* RecursiveChunker(chunk_size, chunk_overlap).chunk_text(text): the splitter
\* refuses an overlap larger than the chunk size.
RecursiveChunk(c) ==
    LET chunk_size == EffectiveChunkSize(c.chunk_size)
        chunk_overlap == EffectiveChunkOverlap(c.chunk_overlap)
    IN  IF chunk_overlap > chunk_size
        THEN [exc |-> "ValueError", chunk_size |-> chunk_size, chunks |-> <<>>,
              heap |-> Heap(c.metadata, 0), changed |-> 0]
        ELSE LET chunks == split_text(c.text, separators, chunk_size, chunk_overlap)
             IN  [exc |-> "none", chunk_size |-> chunk_size,
                  chunks |-> [j \in 1..Len(chunks) |->
                                [text |-> chunks[j],
                                 metadata |-> MetadataOrNew(c.metadata, j)]],
                  heap |-> Heap(c.metadata, Len(chunks)),
                  changed |-> 0]

InitChunk ==
    /\ ServicesInit
    /\ call \in ChunkCalls
    /\ ret = NoReturn

chunk_text ==
    /\ call.op = "chunk"
    /\ ret.op = "none"
    /\ ret' = [op |-> "chunk"] @@ RecursiveChunk(call)
    /\ UNCHANGED <<backendVars, serviceVars, storeVars, call>>

\* The caller changes the metadata of one returned chunk:
\* chunks[j]["metadata"]["video_id"] = 2
SetChunkMetadata ==
    /\ ret.op = "chunk"
    /\ ret.changed = 0
    /\ \E j \in 1..Len(ret.chunks) :
        ret' = [ret EXCEPT !.changed = j,
                           !.heap[ret.chunks[j].metadata] = {<<"video_id", 2>>}]
    /\ UNCHANGED <<backendVars, serviceVars, storeVars, call>>

NextChunk ==
    \/ chunk_text
    \/ SetChunkMetadata

SpecChunk == InitChunk /\ [][NextChunk]_vars

\* ------------------------------------------- construction of the components
\* A key is None, the empty string or a key; a provider is a string.
Keys == {"None", "", "sk"}
Providers == {"openai", "anthropic", "other"}
Components == {"OpenAIEmbedder", "OpenAIGenerator", "AnthropicGenerator", "ChatService"}

\* get_settings() and the settings the service holds.
GlobalSettings == [openai_api_key : Keys, anthropic_api_key : Keys]
ServiceSettings ==
    [openai_api_key : Keys, anthropic_api_key : Keys, llm_provider : Providers,
     should_local_embed : BOOLEAN]

ConstructCalls ==
    [op : {"construct"}, component : Components, api_key : Keys,
     global : GlobalSettings, settings : ServiceSettings]

\* bool(key): None and "" are falsy.
Present(key) == key \notin {"None", ""}

\* api_key or settings.<provider>_api_key
KeyOr(api_key, fallback) == IF Present(api_key) THEN api_key ELSE fallback

\* OpenAIEmbedder.__init__: if not self.api_key: raise EmbeddingError
OpenAIEmbedderInit_lazy(api_key, global) == "none"
OpenAIEmbedderInit(api_key, global) ==
    IF ~Present(KeyOr(api_key, global.openai_api_key)) THEN "EmbeddingError" ELSE "none"

\* OpenAIGenerator.__init__: if not self.api_key: raise LLMError
OpenAIGeneratorInit(api_key, global) ==
    IF ~Present(KeyOr(api_key, global.openai_api_key)) THEN "LLMError" ELSE "none"

\* AnthropicGenerator.__init__: if not self.api_key: raise LLMError
AnthropicGeneratorInit(api_key, global) ==
    IF ~Present(KeyOr(api_key, global.anthropic_api_key)) THEN "LLMError" ELSE "none"

\* ChatService.__init__: embedder, vector store, retriever, then the generator
\* of the selected provider; attrs are the attributes set when it ends.
ChatServiceInit(st, global) ==
    LET embedder == IF st.should_local_embed THEN "none"
                    ELSE OpenAIEmbedderInit(st.openai_api_key, global)
        generator ==
            IF st.llm_provider = "openai"
            THEN IF ~Present(st.openai_api_key) THEN "ValueError"
                 ELSE OpenAIGeneratorInit(st.openai_api_key, global)
            ELSE IF st.llm_provider = "anthropic"
            THEN IF ~Present(st.anthropic_api_key) THEN "ValueError"
                 ELSE AnthropicGeneratorInit(st.anthropic_api_key, global)
            ELSE "ValueError"
    IN  IF embedder # "none" THEN [exc |-> embedder, attrs |-> {}]
        ELSE IF generator # "none"
             THEN [exc |-> generator, attrs |-> {"embedder", "vector_store", "retriever"}]
             ELSE [exc |-> "none",
                   attrs |-> {"embedder", "vector_store", "retriever", "generator"}]

Constructed(c) ==
    CASE c.component = "OpenAIEmbedder" ->
            LET e == OpenAIEmbedderInit(c.api_key, c.global)
            IN  [exc |-> e, attrs |-> IF e = "none" THEN {"client"} ELSE {}]
      [] c.component = "OpenAIGenerator" ->
            LET e == OpenAIGeneratorInit(c.api_key, c.global)
            IN  [exc |-> e, attrs |-> IF e = "none" THEN {"client"} ELSE {}]
      [] c.component = "AnthropicGenerator" ->
            LET e == AnthropicGeneratorInit(c.api_key, c.global)
            IN  [exc |-> e, attrs |-> IF e = "none" THEN {"client"} ELSE {}]
      [] OTHER -> ChatServiceInit(c.settings, c.global)

InitConstruct ==
    /\ ServicesInit
    /\ call \in ConstructCalls
    /\ ret = NoReturn

Construct ==
    /\ call.op = "construct"
    /\ ret.op = "none"
    /\ ret' = [op |-> "construct", used |-> FALSE] @@ Constructed(call)
    /\ UNCHANGED <<backendVars, serviceVars, storeVars, call>>

\* embed_text, generate or ask on the object the constructor returned; a
\* constructor that raised returned no object.
UseComponent ==
    /\ ret.op = "construct"
    /\ ret.exc = "none"
    /\ ~ret.used
    /\ ret' = [ret EXCEPT !.used = TRUE]
    /\ UNCHANGED <<backendVars, serviceVars, storeVars, call>>

NextConstruct ==
    \/ Construct
    \/ UseComponent

SpecConstruct == InitConstruct /\ [][NextConstruct]_vars

\* ------------------------------------------- ChromaVectorStore.search, rows
\* Cosine distances in hundredths (0 to 200).
Distances == {0, 30, 150}

\* What the collection holds for a query: each entry with its document, its
\* distance to the query and its metadata (here the entry's position).
StoredRows ==
    {rs \in UNION {[1..n -> [document : ChunkTexts, distance : Distances,
                             metadata : 1..n]] : n \in 0..MaxCandidates} :
        \A a \in 1..Len(rs) : rs[a].metadata = a}

SearchCalls == [op : {"search"}, k : SearchKs, stored : StoredRows]

\* collection.query answers with the n_results nearest entries, nearest first;
\* entries at the same distance come in any order.
NearestOrders(rows, n_results) ==
    {order \in Rankings(Min(n_results, Len(rows)), Len(rows)) :
        /\ \A a, b \in 1..Len(order) :
            a < b => rows[order[a]].distance <= rows[order[b]].distance
        /\ \A e \in 1..Len(rows) :
            (\A a \in 1..Len(order) : order[a] # e) =>
                \A a \in 1..Len(order) : rows[order[a]].distance <= rows[e].distance}

\* 1 - dist
Score_distance(dist) == dist
Score(dist) == 100 - dist

\* [(doc, 1 - dist, meta) for doc, dist, meta in zip(documents, distances, metadatas)]
FormatResults(documents, distances, metadatas) ==
    [j \in 1..Min(Len(documents), Min(Len(distances), Len(metadatas))) |->
        [text |-> documents[j], score |-> Score(distances[j]),
         metadata |-> metadatas[j]]]

\* ChromaVectorStore.search on the answer of the backend.
SearchRows(c, order) ==
    LET answer == Search(c.stored, c.k, order)
        documents == [j \in 1..Len(answer) |-> answer[j].document]
        distances == [j \in 1..Len(answer) |-> answer[j].distance]
        metadatas == [j \in 1..Len(answer) |-> answer[j].metadata]
    IN  FormatResults(documents, distances, metadatas)

InitSearch ==
    /\ ServicesInit
    /\ call \in SearchCalls
    /\ ret = NoReturn

SearchCall ==
    /\ call.op = "search"
    /\ ret.op = "none"
    /\ \E ok \in BOOLEAN :
        IF ok
        THEN \E order \in NearestOrders(call.stored, call.k) :
                ret' = [op |-> "search", exc |-> "none",
                        results |-> SearchRows(call, order)]
        ELSE ret' = [op |-> "search", exc |-> "VectorStoreError", results |-> <<>>]
    /\ UNCHANGED <<backendVars, serviceVars, storeVars, call>>

NextSearch == SearchCall

SpecSearch == InitSearch /\ [][NextSearch]_vars

\* --------------------------------------- TranscriptFetcher.get_transcript
\* The caption formats yt-dlp lists for a language, by extension; "json3-" is
\* a json3 entry without a url. A language can be missing from the listing.
CaptionFormats == {<<>>, <<"vtt">>, <<"json3">>, <<"vtt", "json3">>, <<"json3-">>}

CaptionTracks ==
    {t \in [listed : BOOLEAN, formats : CaptionFormats] :
        ~t.listed => t.formats = <<>>}

\* The utf8 texts of the segments of the caption file, in order.
SegTexts == {"", " ", "a"}
Segments == UNION {[1..n -> SegTexts] : n \in 0..MaxChunks}

FetchCalls ==
    [op : {"get_transcript"},
     extract : {"ok", "None", "DownloadError"},
     subtitles : CaptionTracks,
     automatic_captions : CaptionTracks,
     download : {"ok", "URLError", "UnicodeDecodeError", "JSONDecodeError"},
     segs : Segments]

\* except TranscriptNotAvailableError: raise
\* except Exception as e: raise TranscriptNotAvailableError(...)
FetchHandler_reraise(exc) == exc
FetchHandler(exc) == "TranscriptNotAvailableError"

\* if lang in subtitles ... if not captions ... automatic_captions
SelectCaptions(subtitles, automatic_captions) ==
    IF subtitles.listed /\ subtitles.formats # <<>> THEN subtitles.formats
    ELSE IF automatic_captions.listed THEN automatic_captions.formats
    ELSE <<>>

\* The first caption format whose ext is json3, "" when there is none.
Json3Caption(captions) ==
    LET hits == SelectSeq(captions, LAMBDA f : f \in {"json3", "json3-"})
    IN  IF hits = <<>> THEN "" ELSE hits[1]

\* seg.get('utf8', '').strip(), kept when not empty
TranscriptParts(segs) == SelectSeq(segs, LAMBDA t : t \notin {"", " "})

\* The body of the try block: the exception it raises, or the transcript parts
\* that ' '.join puts together.
FetchBody(c) ==
    LET captions == SelectCaptions(c.subtitles, c.automatic_captions)
        json3 == Json3Caption(captions)
        parts == TranscriptParts(c.segs)
        fail(exc) == [raised |-> exc, parts |-> <<>>]
    IN  IF c.extract = "DownloadError" THEN fail("DownloadError")
        ELSE IF c.extract = "None" THEN fail("AttributeError")
        ELSE IF captions = <<>> THEN fail("TranscriptNotAvailableError")
        ELSE IF json3 = "" THEN fail("TranscriptNotAvailableError")
        ELSE IF json3 = "json3-" THEN fail("KeyError")
        ELSE IF c.download # "ok" THEN fail(c.download)
        ELSE IF parts = <<>> THEN fail("TranscriptNotAvailableError")
        ELSE [raised |-> "none", parts |-> parts]

GetTranscript(c) ==
    LET body == FetchBody(c)
    IN  [op |-> "get_transcript", raised |-> body.raised, parts |-> body.parts,
         exc |-> IF body.raised = "none" THEN "none" ELSE FetchHandler(body.raised),
         outcome |-> "pending"]

InitFetch ==
    /\ ServicesInit
    /\ call \in FetchCalls
    /\ ret = NoReturn

get_transcript ==
    /\ call.op = "get_transcript"
    /\ ret.op = "none"
    /\ ret' = GetTranscript(call)
    /\ UNCHANGED <<backendVars, serviceVars, storeVars, call>>

\* The per-video try block of index_channel around get_video_transcript.
HandleFetch ==
    /\ ret.op = "get_transcript"
    /\ ret.outcome = "pending"
    /\ ret' = [ret EXCEPT !.outcome =
                  IF ret.exc = "none" THEN "chunk"
                  ELSE IF Escapes(ret.exc) = "none" THEN "skipped"
                  ELSE "aborted"]
    /\ UNCHANGED <<backendVars, serviceVars, storeVars, call>>

NextFetch == get_transcript \/ HandleFetch

SpecFetch == InitFetch /\ [][NextFetch]_vars

\* ================================================================ claims

\* The listed videos whose transcript fetch raised TranscriptNotAvailableError.
SkippedVideos ==
    {j \in 1..Len(videos) :
        videos[j] = 0 /\ \E n \in 1..Len(log) :
            log[n] = [op |-> "fetch", vid |-> j, ok |-> FALSE]}

\* C1: every video whose transcript fetch signalled unavailability is counted
\* as skipped and the loop has moved past it; the run never aborts at such a
\* video, wherever it is in the list and however many there are.
C1_UnavailableIsSkipped ==
    /\ \A j \in SkippedVideos : i > j
    /\ videos_skipped = Cardinality(SkippedVideos)
    /\ (pc = "raised" /\ log # <<>>) => videos[i] > 0

C1_Witness ==
    pc = "returned" /\ videos = <<0, 2>> /\ videos_skipped = 1 /\ videos_indexed = 1

\* C2: when index_channel returns normally over N videos, indexed + skipped = N,
\* skipped is the number of videos without transcript and total_chunks is the
\* sum of the chunk counts of the videos with a transcript.
C2_StatsAddUp ==
    pc = "returned" =>
        /\ stats.videos_indexed + stats.videos_skipped = Len(videos)
        /\ stats.videos_skipped = NumUnavailable(videos)
        /\ stats.videos_indexed = NumAvailable(videos)
        /\ stats.total_chunks = SumChunks(videos)

C2_Witness ==
    pc = "returned" /\ Len(videos) = 2 /\ NumUnavailable(videos) = 1
        /\ stats.total_chunks = 2

\* C3: a failure of chunking, embed_batch or add_documents aborts the run at
\* that video: it is the last collaborator call of the run, index_channel has
\* raised, no later video was touched and the failing video is counted neither
\* as indexed nor as skipped.
C3_FatalStepAborts ==
    \A n \in 1..Len(log) :
        (log[n].op \in {"chunk", "embed", "store"} /\ ~log[n].ok) =>
            /\ pc = "raised"
            /\ n = Len(log)
            /\ \A m \in 1..Len(log) : log[m].vid <= log[n].vid
            /\ videos_indexed + videos_skipped = log[n].vid - 1

C3_Witness ==
    pc = "raised" /\ fault = "embed" /\ i = 2 /\ videos_indexed = 1

\* C4: when the retriever returns no documents, ask returns the canned answer
\* with an empty sources list and generate is not called.
C4_NoDocumentsCanned ==
    (lastAsk.kind # "none" /\ lastAsk.retrieveExc = "none" /\ lastAsk.docs = <<>>) =>
        /\ lastAsk.kind = "canned"
        /\ lastAsk.sources = <<>>
        /\ lastAsk.genCalls = 0

C4_Witness ==
    lastAsk.kind = "canned" /\ lastAsk.fault = "none" /\ HandleLive(chatHandle)

NoDuplicateVideoIds(srcs) ==
    \A a, b \in 1..Len(srcs) : a # b => srcs[a].video_id # srcs[b].video_id

FirstIndex(srcs, v) ==
    CHOOSE a \in 1..Len(srcs) :
        srcs[a].video_id = v /\ \A b \in 1..(a - 1) : srcs[b].video_id # v

C6_GenerationFailureRecovered ==
    lastAsk.fault = "generate" /\ lastAsk.docs # <<>> =>
        /\ ~lastAsk.raised
        /\ lastAsk.kind = "error"
        /\ lastAsk.failed = "generate"
        /\ lastAsk.sources = <<>>
        /\ lastAsk.genCalls = 1

C6_Witness ==
    lastAsk.failed = "generate" /\ Len(lastAsk.docs) = 2

\* C7: ask never raises; whichever step fails (query embedding, search,
\* generation, source formatting) it returns an answer and a list of sources.
C7_AskNeverRaises ==
    /\ ~lastAsk.raised
    /\ lastAsk.sources \in Seq([video_id : 1..MaxVideos])
    /\ lastAsk.failed # "none" => lastAsk.kind = "error"
    /\ lastAsk.fault \in {"embed", "search"} => lastAsk.kind = "error"

C7_Witness ==
    lastAsk.failed = "format" /\ lastAsk.kind = "error"

\* C8 as stated: a failure to embed the query propagates to the caller of ask.
C8_EmbeddingFailurePropagates ==
    lastAsk.fault = "embed" => lastAsk.raised

\* C8 amended: a failure to embed the query propagates out of retrieve as
\* EmbeddingError and is recovered at the boundary of ask like any other
\* failure: ask returns an error answer with no sources and calls no generator.
C8_EmbeddingFailureRecovered ==
    lastAsk.fault = "embed" =>
        /\ lastAsk.retrieveExc = "EmbeddingError"
        /\ ~lastAsk.raised
        /\ lastAsk.kind = "error"
        /\ lastAsk.sources = <<>>
        /\ lastAsk.genCalls = 0

C8_Witness ==
    lastAsk.retrieveExc = "EmbeddingError" /\ lastAsk.failed = "embed"

\* C9: an ask issued after clear_index completed (nothing written since, no
\* collaborator failing) returns the canned answer with no sources and calls
\* no generator, also through a ChatService built before the clear.
C9_AskAfterClearCanned ==
    (lastAsk.kind # "none" /\ lastAsk.afterClear /\ lastAsk.fault = "none") =>
        /\ lastAsk.kind = "canned"
        /\ lastAsk.sources = <<>>
        /\ lastAsk.genCalls = 0

\* C10: an index_channel run that directly follows clear_index on the same
\* IndexingService, with no collaborator failing, returns its stats and has
\* stored the chunks of every video that has a transcript.
C10_IndexAfterClearCompletes ==
    (pc \in {"returned", "raised"} /\ runAfterClear /\ fault = "none") =>
        /\ pc = "returned"
        /\ \A j \in 1..Len(videos) :
            videos[j] > 0 => \E n \in 1..Len(log) :
                log[n] = [op |-> "store", vid |-> j, ok |-> TRUE]

\* C11: after delete_collection nothing that was stored before it is kept or
\* returned: the deleted collection holds no entry, a collection recreated
\* under the name starts empty, a search through a handle opened before the
\* deletion fails with VectorStoreError, and no write lands without a live
\* collection.
C11_DeletedEntriesGone ==
    /\ cleared => entries = <<>>
    /\ collUuid = 0 => entries = <<>>
    /\ (lastAsk.kind # "none" /\ lastAsk.afterClear) =>
            /\ lastAsk.docs = <<>>
            /\ lastAsk.sources = <<>>
    /\ (lastAsk.kind # "none" /\ ~HandleLive(chatHandle) /\ lastAsk.fault # "embed") =>
            lastAsk.retrieveExc = "VectorStoreError"
    /\ (pc = "raised" /\ fault = "none" /\ log # <<>>) =>
            log[Len(log)] = [op |-> "store", vid |-> i, ok |-> FALSE]

C11_Witness ==
    /\ lastAsk.afterClear /\ lastAsk.fault = "none"
    /\ lastAsk.retrieveExc = "VectorStoreError"
    /\ pc = "returned" /\ stats.total_chunks > 0

\* C12: an add_documents call without ids that no other call overlapped has
\* generated ids that are pairwise distinct and distinct from every id stored
\* when it ran, whatever calls (with or without explicit ids) came before.
C12_GeneratedIdsFresh ==
    (lastAdd.called /\ ~lastAdd.explicit /\ ~lastAdd.dirty) =>
        /\ ~HasDuplicates(lastAdd.ids)
        /\ \A j \in 1..Len(lastAdd.ids) : lastAdd.ids[j] \notin lastAdd.storedBefore

\* C13: with no explicit ids ever passed, add_documents calls that overlap
\* behave like a serial order: the ids of a call collide with no stored id and
\* every document of a call that returned is in the collection.
C13_ConcurrentAddsSerial ==
    (lastAdd.called /\ ~explicitUsed /\ ~lastAdd.explicit /\ ~lastAdd.raised) =>
        /\ \A j \in 1..Len(lastAdd.ids) : lastAdd.ids[j] \notin lastAdd.storedBefore
        /\ \A j \in 1..Len(lastAdd.ids) : lastAdd.ids[j] \in StoredIds(entries)
        /\ lastAdd.after = lastAdd.before + lastAdd.n

\* C14: an add_documents call that returned without raising has stored every
\* document it was given: the collection grew by exactly len(texts). Stated
\* for the calls that no other call overlapped.
C14_ReturnedMeansStored ==
    (lastAdd.called /\ ~lastAdd.dirty /\ ~lastAdd.raised) =>
        lastAdd.after = lastAdd.before + lastAdd.n

\* C15: a search that the backend answers returns exactly min(k, size) rows,
\* for every k >= 1 and every collection size including 0: it does not raise
\* and does not pad, each row being a different stored entry.
C15_SearchSize ==
    (lastSearch.called /\ ~lastSearch.raised) =>
        /\ lastSearch.n = Min(lastSearch.k, lastSearch.size)
        /\ Cardinality(lastSearch.results) = lastSearch.n
        /\ lastSearch.results \subseteq StoredIds(entries)

C15_Witness ==
    /\ lastSearch.called /\ ~lastSearch.raised
    /\ lastSearch.k = 3 /\ lastSearch.size = 2 /\ lastSearch.n = 2

\* The rows a reranking call got from the store: the initial_k nearest.
Candidates == SubSeq(call.stored, 1, Min(call.initial_k, Len(call.stored)))

\* C16: for a query with at least one term, every returned document carries
\* 0.7 * similarity + 0.3 * |query_terms \cap doc_terms| / |query_terms| over
\* lowercase whitespace-split term sets; the documents are in descending order
\* of that score and are the k best of the candidates.
C16_RerankedByCombinedScore ==
    (ret.op = "rerank" /\ ret.fault = "none" /\ Terms(call.query) # {}) =>
        LET qt == Terms(call.query)
            want(c) == 7 * c.score * Cardinality(qt)
                        + 300 * Cardinality(qt \cap Terms(c.text))
            k == IF call.k = 0 THEN retrieval_k ELSE call.k
            n == Len(ret.docs)
        IN  /\ ret.exc = "none"
            /\ n = Min(k, Len(Candidates))
            /\ \A j \in 1..n :
                /\ ret.docs[j].id \in 1..Len(Candidates)
                /\ ret.docs[j].text = Candidates[ret.docs[j].id].text
                /\ ret.docs[j].score.den = 1000 * Cardinality(qt)
                /\ ret.docs[j].score.num = want(Candidates[ret.docs[j].id])
            /\ \A a, b \in 1..n :
                /\ a # b => ret.docs[a].id # ret.docs[b].id
                /\ a < b => ret.docs[a].score.num >= ret.docs[b].score.num
            /\ \A c \in 1..Len(Candidates) :
                (\A j \in 1..n : ret.docs[j].id # c) =>
                    \A j \in 1..n : ret.docs[j].score.num >= want(Candidates[c])

\* Query "cats dogs"; B (0.90, neither term) is nearer than A (0.50, both
\* terms); A comes back first with 0.65, B second with 0.63.
C16_Witness ==
    /\ ret.op = "rerank" /\ ret.fault = "none"
    /\ call.query = <<"cats", "dogs">>
    /\ call.stored = <<[text |-> <<"fish">>, score |-> 90, id |-> 1],
                       [text |-> <<"Cats", "dogs">>, score |-> 50, id |-> 2]>>
    /\ ret.docs = <<[text |-> <<"Cats", "dogs">>,
                     score |-> [num |-> 1300, den |-> 2000], id |-> 2],
                    [text |-> <<"fish">>,
                     score |-> [num |-> 1260, den |-> 2000], id |-> 1]>>

\* C17: for a query without terms and at least one candidate the reranking
\* completes, and every returned document carries 0.7 * similarity.
C17_EmptyQueryOverlapZero ==
    (ret.op = "rerank" /\ ret.fault = "none" /\ Terms(call.query) = {}
        /\ Candidates # <<>>) =>
        /\ ret.exc = "none"
        /\ Len(ret.docs) =
             Min(IF call.k = 0 THEN retrieval_k ELSE call.k, Len(Candidates))
        /\ \A j \in 1..Len(ret.docs) :
             ret.docs[j].score.num * 1000 =
                7 * Candidates[ret.docs[j].id].score * ret.docs[j].score.den

\* C18: when at least one document was retrieved, ask calls generate exactly
\* once, with the question, the texts of the documents in the order the
\* retriever gave them and the caller's system_prompt (or none); when no step
\* fails the answer returned is the text generate returned.
C18_GenerateCalledOnce ==
    (ret.op = "ask" /\ ret.retrieved # <<>>) =>
        /\ ret.retrieved = call.documents
        /\ ret.genCalls = 1
        /\ ret.calls =
             <<[query |-> call.question,
                context |-> [j \in 1..Len(call.documents) |-> call.documents[j].text],
                system_prompt |-> call.system_prompt]>>
        /\ ret.failed = "none" => (ret.kind = "answer" /\ ret.answer = call.output)

C18_Witness ==
    /\ ret.op = "ask" /\ ret.kind = "answer"
    /\ ret.calls = <<[query |-> "q2", context |-> <<"t2", "t1">>,
                      system_prompt |-> "None"]>>
    /\ ret.answer = "a2"

\* C19: no deduplication across runs. An index_channel run that returned, with
\* the collection not deleted meanwhile, has appended every chunk of every
\* video with a transcript under ids that are new to the collection, whatever
\* the collection held before (the same videos included): the size is what it
\* was at the start plus the run's total_chunks, and all ids are distinct.
C19_SecondRunAppends ==
    (pc = "returned" /\ HandleLive(idxHandle)) =>
        /\ Len(entries) = runBase + stats.total_chunks
        /\ \A a, b \in 1..Len(entries) : a # b => entries[a].id # entries[b].id
        /\ \A j \in 1..Len(videos) :
            Cardinality({a \in (runBase + 1)..Len(entries) :
                            entries[a].video_id = j}) = videos[j]

\* The one-video channel indexed twice: two entries of the same video.
C19_Witness ==
    /\ pc = "returned" /\ HandleLive(idxHandle)
    /\ videos = <<1>> /\ runBase = 1 /\ stats.total_chunks = 1
    /\ entries = <<[id |-> 0, video_id |-> 1], [id |-> 1, video_id |-> 1]>>

\* C20: every chunk chunk_text returns has at most chunk_size characters; with
\* the configured separators, which end in the character level, there is no
\* text for which a longer chunk comes out.
C20_ChunksWithinSize ==
    (ret.op = "chunk" /\ ret.exc = "none") =>
        \A j \in 1..Len(ret.chunks) : Len(ret.chunks[j].text) <= ret.chunk_size

\* A word longer than chunk_size is cut at the character level.
C20_Witness ==
    /\ ret.op = "chunk" /\ ret.exc = "none"
    /\ call.text = <<"a", "a", "a", " ">> /\ call.chunk_size = 2
    /\ Len(ret.chunks) >= 2

\* C21: chunk_text on the empty text returns the empty list without failing,
\* and every chunk it returns, for any text, has a text of at least one
\* character.
C21_NoEmptyChunk ==
    (ret.op = "chunk" /\ ret.exc = "none") =>
        /\ call.text = <<>> => ret.chunks = <<>>
        /\ \A j \in 1..Len(ret.chunks) : Len(ret.chunks[j].text) >= 1

C21_Witness ==
    /\ ret.op = "chunk" /\ ret.exc = "none"
    /\ call.text = <<>> /\ call.chunk_size = 2 /\ ret.chunks = <<>>

\* C22: every chunk carries the content of the caller's metadata (an empty
\* dictionary for None), and after the metadata of one chunk was changed the
\* caller's dictionary and the metadata of every other chunk still have it.
C22_MetadataCopied ==
    (ret.op = "chunk" /\ ret.exc = "none") =>
        /\ call.metadata.given => ret.heap[0] = call.metadata.items
        /\ \A j \in 1..Len(ret.chunks) :
            j # ret.changed => ret.heap[ret.chunks[j].metadata] = call.metadata.items

\* The construction lacks a credential it needs or selects no known provider.
Misconfigured ==
    LET missing(k) == k \in {"None", ""}
        st == call.settings
    IN  CASE call.component = "OpenAIEmbedder" ->
                missing(call.api_key) /\ missing(call.global.openai_api_key)
          [] call.component = "OpenAIGenerator" ->
                missing(call.api_key) /\ missing(call.global.openai_api_key)
          [] call.component = "AnthropicGenerator" ->
                missing(call.api_key) /\ missing(call.global.anthropic_api_key)
          [] OTHER ->
                \/ st.llm_provider \notin {"openai", "anthropic"}
                \/ st.llm_provider = "openai" /\ missing(st.openai_api_key)
                \/ st.llm_provider = "anthropic" /\ missing(st.anthropic_api_key)
                \/ ~st.should_local_embed /\ missing(st.openai_api_key)
                     /\ missing(call.global.openai_api_key)

\* C23: a construction without the needed credential or with an unknown
\* provider raises, and no call ever runs on a component whose construction
\* raised or that lacks an attribute.
C23_MisconfigurationFatal ==
    ret.op = "construct" =>
        /\ Misconfigured => (ret.exc # "none" /\ ~ret.used)
        /\ ret.used =>
            /\ ret.exc = "none"
            /\ call.component = "ChatService" =>
                ret.attrs = {"embedder", "vector_store", "retriever", "generator"}
            /\ call.component # "ChatService" => ret.attrs = {"client"}

C23_Witness ==
    /\ ret.op = "construct" /\ call.component = "ChatService"
    /\ call.settings.llm_provider = "other" /\ call.settings.should_local_embed
    /\ ret.exc = "ValueError"

\* C24: the results of search are in descending order of score, each score is
\* 1 minus the cosine distance of its entry, and text, score and metadata of a
\* result belong to one stored entry, no entry appearing twice.
C24_SearchDescending ==
    (ret.op = "search" /\ ret.exc = "none") =>
        /\ \A a, b \in 1..Len(ret.results) :
            a < b => ret.results[a].score >= ret.results[b].score
        /\ \A j \in 1..Len(ret.results) :
            LET e == ret.results[j].metadata
            IN  /\ e \in 1..Len(call.stored)
                /\ ret.results[j].text = call.stored[e].document
                /\ ret.results[j].score + call.stored[e].distance = 100
        /\ \A a, b \in 1..Len(ret.results) :
            a # b => ret.results[a].metadata # ret.results[b].metadata

C24_Witness ==
    /\ ret.op = "search" /\ ret.exc = "none" /\ call.k = 2
    /\ call.stored = <<[document |-> "t1", distance |-> 150, metadata |-> 1],
                       [document |-> "t2", distance |-> 30, metadata |-> 2]>>
    /\ ret.results = <<[text |-> "t2", score |-> 70, metadata |-> 2],
                       [text |-> "t1", score |-> -50, metadata |-> 1]>>

\* The collaborator calls made for video j, in the order they were made.
VideoLog(j) == SelectSeq(log, LAMBDA e : e.vid = j)

\* The steps of the per-video try block, in program order.
Steps == <<"fetch", "chunk", "embed", "store">>

\* C25: videos are processed in listing order; the calls made for a video are
\* fetch, chunk, embed_batch, add_documents in this order, each at most once and
\* each only after the previous one succeeded; for a skipped video only the
\* fetch is made; the counters cover a video only after its add_documents
\* returned (or its fetch signalled unavailability).
C25_StepsInOrder ==
    /\ \A n \in 1..(Len(log) - 1) : log[n].vid <= log[n + 1].vid
    /\ \A j \in 1..Len(videos) :
        LET l == VideoLog(j)
        IN  /\ Len(l) <= Len(Steps)
            /\ \A n \in 1..Len(l) : l[n].op = Steps[n]
            /\ \A n \in 1..(Len(l) - 1) : l[n].ok
            /\ videos[j] = 0 => Len(l) <= 1
            /\ j < i => l # <<>>
            /\ j > i => l = <<>>
    /\ videos_indexed =
          Cardinality({j \in 1..Len(videos) :
              \E n \in 1..Len(log) : log[n] = [op |-> "store", vid |-> j, ok |-> TRUE]})
    /\ pc \in {"chunk", "embed", "store"} =>
          /\ videos_indexed + videos_skipped = i - 1
          /\ total_chunks = SumChunks(SubSeq(videos, 1, i - 1))

C25_Witness ==
    /\ pc = "returned" /\ videos = <<1, 0>>
    /\ log = <<[op |-> "fetch", vid |-> 1, ok |-> TRUE],
               [op |-> "chunk", vid |-> 1, ok |-> TRUE],
               [op |-> "embed", vid |-> 1, ok |-> TRUE],
               [op |-> "store", vid |-> 1, ok |-> TRUE],
               [op |-> "fetch", vid |-> 2, ok |-> FALSE]>>
    /\ stats.videos_indexed = 1 /\ stats.videos_skipped = 1

\* The entries the current run has appended to the collection.
RunEntries == SubSeq(entries, runBase + 1, Len(entries))

\* C26: when index_channel has raised at video i and nobody deleted the
\* collection, the entries of the videos indexed before i are still stored,
\* no entry of video i or of a later one is stored, and the caller has no
\* stats dictionary.
C26_AbortKeepsEarlierVideos ==
    (pc = "raised" /\ log # <<>> /\ HandleLive(idxHandle)) =>
        /\ Len(entries) >= runBase
        /\ \A j \in 1..(i - 1) :
            Len(SelectSeq(RunEntries, LAMBDA e : e.video_id = j)) = videos[j]
        /\ \A n \in 1..Len(RunEntries) : RunEntries[n].video_id < i
        /\ Len(RunEntries) = SumChunks(SubSeq(videos, 1, i - 1))
        /\ stats = NoStats

C26_Witness ==
    /\ pc = "raised" /\ HandleLive(idxHandle) /\ fault = "store"
    /\ videos = <<2, 1>> /\ i = 2 /\ Len(RunEntries) = 2 /\ runBase = 0

\* The step at which the current run failed.
FailedStep == IF log = <<>> THEN "listing" ELSE log[Len(log)].op

\* C27: whichever step made index_channel or clear_index fail, the exception
\* that reaches the caller is an IndexingError; when channel lookup or video
\* listing failed, no collaborator of the loop was called and nothing was
\* written.
C27_OnlyIndexingErrorEscapes ==
    /\ pc = "raised" =>
        /\ StepExceptions(FailedStep) # {}
        /\ \A exc \in StepExceptions(FailedStep) : Escapes(exc) = "IndexingError"
    /\ lastClear = "raised" =>
        \A exc \in StepExceptions("delete") : OuterHandler(exc) = "IndexingError"
    /\ (pc = "raised" /\ fault = "listing") =>
        /\ log = <<>>
        /\ total_chunks = 0
        /\ Len(entries) <= runBase

C27_Witness ==
    pc = "raised" /\ fault = "listing" /\ log = <<>> /\ lastClear = "raised"

\* C28: when index_channel has returned and nobody else wrote to or deleted
\* the collection, the collection holds the n entries it held at the start of
\* the run plus total_chunks: the reported total is the number of entries the
\* run added, each under an id of its own.
C28_TotalChunksIsGrowth ==
    (pc = "returned" /\ HandleLive(idxHandle)) =>
        /\ Len(RunEntries) = stats.total_chunks
        /\ Cardinality(StoredIds(entries)) = runBase + stats.total_chunks
        /\ stats.total_chunks = SumChunks(videos)

C28_Witness ==
    /\ pc = "returned" /\ HandleLive(idxHandle)
    /\ runBase = 1 /\ videos = <<0, 2>> /\ stats.total_chunks = 2
    /\ Len(entries) = 3

\* C29: whatever fails inside get_transcript (no captions, no json3 format,
\* empty transcript, download, decoding, parsing or any other error), the
\* exception raised is TranscriptNotAvailableError; index_channel counts the
\* video as skipped and goes on, and a transcript that is returned is not empty.
C29_FetchFailureIsUnavailable ==
    ret.op = "get_transcript" =>
        /\ ret.exc \in {"none", "TranscriptNotAvailableError"}
        /\ ret.raised # "none" => ret.exc = "TranscriptNotAvailableError"
        /\ ret.exc = "none" => ret.parts # <<>>
        /\ ret.outcome # "aborted"
        /\ (ret.outcome = "skipped") <=> (ret.outcome # "pending" /\ ret.raised # "none")

C29_Witness ==
    /\ ret.op = "get_transcript" /\ ret.raised = "JSONDecodeError"
    /\ ret.outcome = "skipped"

\* C30: RerankingRetriever.retrieve(query, k), when embedder and store answer,
\* returns exactly min(k, initial_k, collection size) documents, k = None or 0
\* standing for retrieval_k.
C30_RerankReturnsMinCount ==
    (ret.op = "rerank" /\ ret.fault = "none") =>
        /\ ret.exc = "none"
        /\ Len(ret.docs) = Min(EffectiveK(call.k), Min(call.initial_k, Len(call.stored)))

====
